---- MODULE Spec2Model ----
(***************************************************************************)
(* A model of class Stopwatch of stopwatch.py: a wall-clock stopwatch that *)
(* keeps a list of labelled timestamps and renders it as a timeline.       *)
(*                                                                         *)
(* A datetime is modelled as an integer (seconds), a timedelta as the      *)
(* integer difference of two datetimes.  Python's None is the empty tuple  *)
(* and a value v that may be None is carried as <<v>>, so that None is     *)
(* distinct from every datetime, every timedelta and every string.         *)
(***************************************************************************)
EXTENDS Integers, Sequences, FiniteSets, TLC

\* Bounds of the model: clock readings are 0..MaxTime, times holds at most
\* MaxLen entries.
MaxTime == 1
MaxLen == 3

None == <<>>
Some(v) == <<v>>
IsSet(o) == o # None
Val(o) == o[1]

\* The readings datetime.now() can return.  The wall clock is not monotonic.
Time == 0..MaxTime

\* The labels a caller passes to lap(): None (the default), '', a text, and
\* a text that reads like a generated label.
Labels == {None, Some(""), Some("Checkpoint"), Some("Lap1")}

\* The keyword arguments of display_laps that change what is rendered.
Configs ==
  [mark_elapsed_time : BOOLEAN, show_stop : BOOLEAN, annotate : BOOLEAN,
   verbose : BOOLEAN, vlines : BOOLEAN]

VARIABLES
  start_time,   \* self.start_time: None or <<datetime>>
  times,        \* self.times: sequence of <<label, datetime>>
  stop_time,    \* self.stop_time: None or <<datetime>>
  now,          \* the last reading of datetime.now()
  call,         \* the last call made on the watch: [name, args]
  raised,       \* None, or <<exception>> the last call ended in
  stdout,       \* what the last call printed ("" when nothing)
  returned,     \* what the last call returned: None or <<value>>
  figure,       \* what the last display_laps handed to the plot and the table
  laps_run,     \* history: lap() calls since a successful start() with no
                \* other operation in between; -1 when there is no such start
  stopped,      \* history: a stop() has succeeded since the most recent
                \* successful start(), construction or reset
  auto_laps     \* history: the positions in times of the entries appended by
                \* lap() with a generated label

fields == <<start_time, times, stop_time>>
vars == <<start_time, times, stop_time, now, call, raised, stdout, returned,
          figure, laps_run, stopped, auto_laps>>

\* The exception start() raises, and the one datetime - None raises.
AlreadyRunningOrUsed ==
  "Exception: Please reset timer using .reset() or set force_reset=True."
TypeError ==
  "TypeError: unsupported operand type(s) for -: 'datetime.datetime' and 'NoneType'"

NotStarted == "Timer not started."
NoTimes == "No times to display."

\* Nothing was drawn and nothing was tabulated.
NoFigure == [scatter |-> None, annotations |-> None, axvlines |-> None,
             table |-> None]

\* What a call leaves behind besides the watch's fields.
Outcome(name, args, exc, out, ret, fig) ==
  /\ call' = [name |-> name, args |-> args]
  /\ raised' = exc
  /\ stdout' = out
  /\ returned' = ret
  /\ figure' = fig

\* The generated label as it would be if the count were left out of it.
AutoLabel_NoCount(n) == "Lap"

\* f'Lap{n}'
AutoLabel(n) == "Lap" \o ToString(n)

\* Python's `not label` for a label that is None or a str.
Falsy(label) == label = None \/ label = Some("")

\* __init__(auto_start): the fields it assigns before the optional start().
construct(auto_start, t) ==
  /\ IF auto_start
       THEN /\ start_time' = Some(t)
            /\ times' = <<  <<"Start", t>>  >>
            /\ stop_time' = None
            /\ now' = t
            /\ laps_run' = 0
       ELSE /\ start_time' = None
            /\ times' = <<>>
            /\ stop_time' = None
            /\ now' = now
            /\ laps_run' = -1
  /\ stopped' = FALSE
  /\ auto_laps' = {}
  /\ Outcome("construct", <<auto_start>>, None, "", None, NoFigure)

\* reset() as it would be if it forgot self.stop_time.
reset_KeepsStopTime ==
  /\ start_time' = None
  /\ times' = <<>>
  /\ laps_run' = -1
  /\ stopped' = FALSE
  /\ auto_laps' = {}
  /\ Outcome("reset", <<>>, None, "", None, NoFigure)
  /\ UNCHANGED <<stop_time, now>>

\* reset(): self.__init__(auto_start=False)
reset ==
  /\ start_time' = None
  /\ times' = <<>>
  /\ stop_time' = None
  /\ laps_run' = -1
  /\ stopped' = FALSE
  /\ auto_laps' = {}
  /\ Outcome("reset", <<>>, None, "", None, NoFigure)
  /\ UNCHANGED now

\* start() as it would be if it tested self.start_time, not self.times.
start_TestsStartTime(force_reset, t) ==
  IF IsSet(start_time) /\ ~force_reset
    THEN /\ Outcome("start", <<force_reset>>, Some(AlreadyRunningOrUsed), "",
                    None, NoFigure)
         /\ laps_run' = -1
         /\ UNCHANGED <<start_time, times, stop_time, now, stopped, auto_laps>>
    ELSE /\ start_time' = Some(t)
         /\ times' = Append(IF force_reset THEN <<>> ELSE times, <<"Start", t>>)
         /\ auto_laps' = IF force_reset THEN {} ELSE auto_laps
         /\ stop_time' = IF force_reset THEN None ELSE stop_time
         /\ now' = t
         /\ laps_run' = 0
         /\ stopped' = FALSE
         /\ Outcome("start", <<force_reset>>, None, "", None, NoFigure)

\* start() as it would be if force_reset cleared the two times but not the list.
start_KeepsTimes(force_reset, t) ==
  IF times # <<>> /\ ~force_reset
    THEN /\ Outcome("start", <<force_reset>>, Some(AlreadyRunningOrUsed), "",
                    None, NoFigure)
         /\ laps_run' = -1
         /\ UNCHANGED <<start_time, times, stop_time, now, stopped, auto_laps>>
    ELSE /\ Len(times) < MaxLen
         /\ start_time' = Some(t)
         /\ times' = Append(times, <<"Start", t>>)
         /\ auto_laps' = auto_laps
         /\ stop_time' = IF force_reset THEN None ELSE stop_time
         /\ now' = t
         /\ laps_run' = 0
         /\ stopped' = FALSE
         /\ Outcome("start", <<force_reset>>, None, "", None, NoFigure)

\* start() as it would be without the check of self.times.
start_NoCheck(force_reset, t) ==
  /\ force_reset \/ Len(times) < MaxLen
  /\ start_time' = Some(t)
  /\ times' = Append(IF force_reset THEN <<>> ELSE times, <<"Start", t>>)
  /\ auto_laps' = IF force_reset THEN {} ELSE auto_laps
  /\ stop_time' = IF force_reset THEN None ELSE stop_time
  /\ now' = t
  /\ laps_run' = 0
  /\ stopped' = FALSE
  /\ Outcome("start", <<force_reset>>, None, "", None, NoFigure)

\* start() as it would be if force_reset left self.stop_time alone.
start_KeepsStopTime(force_reset, t) ==
  IF times # <<>> /\ ~force_reset
    THEN /\ Outcome("start", <<force_reset>>, Some(AlreadyRunningOrUsed), "",
                    None, NoFigure)
         /\ laps_run' = -1
         /\ UNCHANGED <<start_time, times, stop_time, now, stopped, auto_laps>>
    ELSE /\ start_time' = Some(t)
         /\ times' = Append(IF force_reset THEN <<>> ELSE times, <<"Start", t>>)
         /\ auto_laps' = IF force_reset THEN {} ELSE auto_laps
         /\ stop_time' = stop_time
         /\ now' = t
         /\ laps_run' = 0
         /\ stopped' = FALSE
         /\ Outcome("start", <<force_reset>>, None, "", None, NoFigure)

\* start(force_reset)
start(force_reset, t) ==
  IF times # <<>> /\ ~force_reset
    THEN /\ Outcome("start", <<force_reset>>, Some(AlreadyRunningOrUsed), "",
                    None, NoFigure)
         /\ laps_run' = -1
         /\ UNCHANGED <<start_time, times, stop_time, now, stopped, auto_laps>>
    ELSE /\ start_time' = Some(t)
         /\ times' = Append(IF force_reset THEN <<>> ELSE times, <<"Start", t>>)
         /\ auto_laps' = IF force_reset THEN {} ELSE auto_laps
         /\ stop_time' = IF force_reset THEN None ELSE stop_time
         /\ now' = t
         /\ laps_run' = 0
         /\ stopped' = FALSE
         /\ Outcome("start", <<force_reset>>, None, "", None, NoFigure)

\* lap() as it would be if the length were taken after the append.
lap_CountsItself(label, t) ==
  /\ Len(times) < MaxLen
  /\ times' = Append(times,
                     <<IF Falsy(label) THEN AutoLabel(Len(times) + 1)
                                       ELSE Val(label),
                       t>>)
  /\ auto_laps' = IF Falsy(label) THEN auto_laps \cup {Len(times) + 1}
                                  ELSE auto_laps
  /\ now' = t
  /\ laps_run' = IF laps_run >= 0 THEN laps_run + 1 ELSE -1
  /\ Outcome("lap", <<label>>, None, "", None, NoFigure)
  /\ UNCHANGED <<start_time, stop_time, stopped>>

\* lap() as it would be if it inserted the entry at the head of the list.
lap_Prepends(label, t) ==
  /\ Len(times) < MaxLen
  /\ times' = << <<IF Falsy(label) THEN AutoLabel(Len(times)) ELSE Val(label),
                   t>> >> \o times
  /\ auto_laps' = IF Falsy(label) THEN {i + 1 : i \in auto_laps} \cup {1}
                                  ELSE {i + 1 : i \in auto_laps}
  /\ now' = t
  /\ laps_run' = IF laps_run >= 0 THEN laps_run + 1 ELSE -1
  /\ Outcome("lap", <<label>>, None, "", None, NoFigure)
  /\ UNCHANGED <<start_time, stop_time, stopped>>

\* lap(label)
lap(label, t) ==
  /\ Len(times) < MaxLen
  /\ times' = Append(times,
                     <<IF Falsy(label) THEN AutoLabel(Len(times)) ELSE Val(label),
                       t>>)
  /\ auto_laps' = IF Falsy(label) THEN auto_laps \cup {Len(times) + 1}
                                  ELSE auto_laps
  /\ now' = t
  /\ laps_run' = IF laps_run >= 0 THEN laps_run + 1 ELSE -1
  /\ Outcome("lap", <<label>>, None, "", None, NoFigure)
  /\ UNCHANGED <<start_time, stop_time, stopped>>

\* stop() as it would be if it set self.stop_time without the append.
stop_NoAppend(t) ==
  IF ~IsSet(start_time)
    THEN /\ Outcome("stop", <<>>, None, NotStarted, None, NoFigure)
         /\ laps_run' = -1
         /\ UNCHANGED <<start_time, times, stop_time, now, stopped, auto_laps>>
    ELSE /\ Len(times) < MaxLen
         /\ stop_time' = Some(t)
         /\ now' = t
         /\ laps_run' = -1
         /\ stopped' = TRUE
         /\ Outcome("stop", <<>>, None, "", None, NoFigure)
         /\ UNCHANGED <<start_time, times, auto_laps>>

\* stop() as it would be if it tested self.times, not self.start_time.
stop_TestsTimes(t) ==
  IF times = <<>>
    THEN /\ Outcome("stop", <<>>, None, NotStarted, None, NoFigure)
         /\ laps_run' = -1
         /\ UNCHANGED <<start_time, times, stop_time, now, stopped, auto_laps>>
    ELSE /\ Len(times) < MaxLen
         /\ stop_time' = Some(t)
         /\ times' = Append(times, <<"Stop", t>>)
         /\ now' = t
         /\ laps_run' = -1
         /\ stopped' = TRUE
         /\ Outcome("stop", <<>>, None, "", None, NoFigure)
         /\ UNCHANGED <<start_time, auto_laps>>

\* stop()
stop(t) ==
  IF ~IsSet(start_time)
    THEN /\ Outcome("stop", <<>>, None, NotStarted, None, NoFigure)
         /\ laps_run' = -1
         /\ UNCHANGED <<start_time, times, stop_time, now, stopped, auto_laps>>
    ELSE /\ Len(times) < MaxLen
         /\ stop_time' = Some(t)
         /\ times' = Append(times, <<"Stop", t>>)
         /\ now' = t
         /\ laps_run' = -1
         /\ stopped' = TRUE
         /\ Outcome("stop", <<>>, None, "", None, NoFigure)
         /\ UNCHANGED <<start_time, auto_laps>>

\* elapsed_time_() as it would be with the operands of the difference swapped.
elapsed_time_Swapped ==
  /\ Outcome("elapsed_time_", <<>>, None, "",
             IF IsSet(stop_time) /\ IsSet(start_time)
               THEN Some(Val(start_time) - Val(stop_time))
               ELSE None,
             NoFigure)
  /\ laps_run' = -1
  /\ UNCHANGED <<start_time, times, stop_time, now, stopped, auto_laps>>

\* elapsed_time_()
elapsed_time_ ==
  /\ Outcome("elapsed_time_", <<>>, None, "",
             IF IsSet(stop_time) /\ IsSet(start_time)
               THEN Some(Val(stop_time) - Val(start_time))
               ELSE None,
             NoFigure)
  /\ laps_run' = -1
  /\ UNCHANGED <<start_time, times, stop_time, now, stopped, auto_laps>>

\* The local `times` of display_laps: self.times or self.times[:-1].
Shown(show_stop) ==
  IF show_stop THEN times ELSE SubSeq(times, 1, Len(times) - 1)

\* The local `x` as it would be with the operands of the difference swapped.
XCoords_Swapped(shown, mark_elapsed_time) ==
  [i \in 1..Len(shown) |->
     IF mark_elapsed_time THEN Val(start_time) - shown[i][2] ELSE shown[i][2]]

\* The local `x` of display_laps; evaluated only where it does not raise.
XCoords(shown, mark_elapsed_time) ==
  [i \in 1..Len(shown) |->
     IF mark_elapsed_time THEN shown[i][2] - Val(start_time) ELSE shown[i][2]]

\* (x[1] - self.start_time) raises when self.start_time is None and the
\* comprehension has an element to evaluate it on.
XRaises(shown, mark_elapsed_time) ==
  mark_elapsed_time /\ shown # <<>> /\ ~IsSet(start_time)

\* What display_laps draws and tabulates when it gets that far.
Render(cfg) ==
  LET shown == Shown(cfg.show_stop)
      x == XCoords(shown, cfg.mark_elapsed_time)
  IN  [scatter |-> Some([i \in 1..Len(x) |-> <<x[i], 0>>]),
       annotations |->
         IF cfg.annotate
           THEN Some([i \in 1..Len(shown) |-> <<shown[i][1], x[i], 0>>])
           ELSE None,
       axvlines |->
         IF cfg.vlines
           THEN Some(IF cfg.mark_elapsed_time
                       THEN x
                       ELSE [i \in 1..Len(shown) |-> shown[i][2]])
           ELSE None,
       table |->
         IF cfg.verbose
           THEN Some([i \in 1..Len(shown) |->
                        IF cfg.mark_elapsed_time
                          THEN <<shown[i][1], shown[i][2], x[i]>>
                          ELSE <<shown[i][1], shown[i][2]>>])
           ELSE None]

\* display_laps() as it would be if show_stop=False popped the last entry off
\* self.times instead of slicing a copy.
display_laps_Pops(cfg) ==
  /\ IF times = <<>>
       THEN Outcome("display_laps", cfg, None, NoTimes, None, NoFigure)
       ELSE IF XRaises(Shown(cfg.show_stop), cfg.mark_elapsed_time)
              THEN Outcome("display_laps", cfg, Some(TypeError), "", None,
                           NoFigure)
              ELSE Outcome("display_laps", cfg, None, "", None, Render(cfg))
  /\ times' = IF times = <<>> THEN times ELSE Shown(cfg.show_stop)
  /\ auto_laps' = auto_laps \cap (1..Len(times'))
  /\ laps_run' = -1
  /\ UNCHANGED <<start_time, stop_time, now, stopped>>

\* display_laps(mark_elapsed_time, show_stop, annotate, verbose, vlines)
display_laps(cfg) ==
  /\ IF times = <<>>
       THEN Outcome("display_laps", cfg, None, NoTimes, None, NoFigure)
       ELSE IF XRaises(Shown(cfg.show_stop), cfg.mark_elapsed_time)
              THEN Outcome("display_laps", cfg, Some(TypeError), "", None,
                           NoFigure)
              ELSE Outcome("display_laps", cfg, None, "", None, Render(cfg))
  /\ laps_run' = -1
  /\ UNCHANGED <<start_time, times, stop_time, now, stopped, auto_laps>>

\* The state after Stopwatch(auto_start), at any clock reading.
Init ==
  \E auto_start \in BOOLEAN, t \in Time :
    /\ start_time = IF auto_start THEN Some(t) ELSE None
    /\ times = IF auto_start THEN << <<"Start", t>> >> ELSE <<>>
    /\ stop_time = None
    /\ now = IF auto_start THEN t ELSE 0
    /\ call = [name |-> "construct", args |-> <<auto_start>>]
    /\ raised = None
    /\ stdout = ""
    /\ returned = None
    /\ figure = NoFigure
    /\ laps_run = IF auto_start THEN 0 ELSE -1
    /\ stopped = FALSE
    /\ auto_laps = {}

Next ==
  \/ \E auto_start \in BOOLEAN, t \in Time : construct(auto_start, t)
  \/ \E force_reset \in BOOLEAN, t \in Time : start(force_reset, t)
  \/ \E label \in Labels, t \in Time : lap(label, t)
  \/ \E t \in Time : stop(t)
  \/ reset
  \/ elapsed_time_
  \/ \E cfg \in Configs : display_laps(cfg)

Spec == Init /\ [][Next]_vars

\* The readings of a clock that never goes back: none is below the last one.
LaterTime == {t \in Time : t >= now}

\* The calls of Next, made under a clock that never goes back.
NextMono ==
  \/ \E auto_start \in BOOLEAN, t \in LaterTime : construct(auto_start, t)
  \/ \E force_reset \in BOOLEAN, t \in LaterTime : start(force_reset, t)
  \/ \E label \in Labels, t \in LaterTime : lap(label, t)
  \/ \E t \in LaterTime : stop(t)
  \/ reset
  \/ elapsed_time_
  \/ \E cfg \in Configs : display_laps(cfg)

SpecMono == Init /\ [][NextMono]_vars

(***************************************************************************)
(* The claims.                                                             *)
(***************************************************************************)

\* The entries of a sequence of <<label, datetime>> the renderer was given,
\* read back from the points it drew: their datetimes when the x-axis is the
\* raw timestamp, their offsets from start_time when it is the elapsed time.
PointsOf(entries, mark_elapsed_time) ==
  [i \in 1..Len(entries) |->
     <<IF mark_elapsed_time THEN entries[i][2] - Val(start_time)
                            ELSE entries[i][2], 0>>]
RowsOf(entries, mark_elapsed_time) ==
  [i \in 1..Len(entries) |->
     IF mark_elapsed_time
       THEN <<entries[i][1], entries[i][2], entries[i][2] - Val(start_time)>>
       ELSE <<entries[i][1], entries[i][2]>>]
AllButLast(seq) == [i \in 1..(Len(seq) - 1) |-> seq[i]]

\* C1: a stop() that follows a start() and exactly k lap() calls, with no
\* other operation in between, leaves times with 2 + k entries, the first
\* ("Start", start_time) and the last ("Stop", stop_time).
C1_StartLapsStop ==
  [][(call'.name = "stop" /\ laps_run >= 0) =>
       /\ Len(times') = 2 + laps_run
       /\ IsSet(start_time') /\ IsSet(stop_time')
       /\ times'[1] = <<"Start", Val(start_time')>>
       /\ times'[Len(times')] = <<"Stop", Val(stop_time')>>]_vars

\* C1 witness: stop() has just closed a run of start(), one lap(), stop().
C1_Witness ==
  /\ call.name = "stop"
  /\ raised = None
  /\ stdout = ""
  /\ Len(times) = 3
  /\ times[1][1] = "Start"
  /\ times[2][1] \in {"Lap1", "Checkpoint"}
  /\ times[3][1] = "Stop"

\* C2: elapsed_time_() returns None when no stop() has succeeded since the
\* most recent successful start() (or construction or reset), and exactly
\* stop_time - start_time otherwise; it never raises and changes no field.
C2_ElapsedTime ==
  [][call'.name = "elapsed_time_" =>
       /\ raised' = None
       /\ UNCHANGED fields
       /\ IF stopped
            THEN /\ IsSet(start_time) /\ IsSet(stop_time)
                 /\ returned' = Some(Val(stop_time) - Val(start_time))
            ELSE returned' = None]_vars

\* C2 witness: elapsed_time_() has returned a non-zero duration.
C2_Witness ==
  /\ call.name = "elapsed_time_"
  /\ stopped
  /\ returned # None
  /\ Val(returned) # 0

\* C3: reset() leaves start_time None, stop_time None and times empty, the
\* fields of Stopwatch(auto_start=False), whatever the state before it.
C3_ResetIsFresh ==
  call.name = "reset" =>
    /\ start_time = None
    /\ stop_time = None
    /\ times = <<>>
    /\ raised = None

\* C3 witness: a reset() of a watch whose clock had been read at MaxTime.
C3_Witness ==
  /\ call.name = "reset"
  /\ now = MaxTime
  /\ times = <<>>

\* C4: start(force_reset=False) on non-empty times raises the exception and
\* leaves start_time, stop_time and times as they were; on empty times it
\* does not raise.
C4_StartNoForce ==
  [][(call'.name = "start" /\ call'.args = <<FALSE>>) =>
       IF times # <<>>
         THEN /\ raised' = Some(AlreadyRunningOrUsed)
              /\ UNCHANGED fields
         ELSE raised' = None]_vars

\* C4 witness: start(force_reset=False) has raised on a watch holding a lap
\* recorded before any start.
C4_Witness ==
  /\ call.name = "start"
  /\ call.args = <<FALSE>>
  /\ raised = Some(AlreadyRunningOrUsed)
  /\ times # <<>>
  /\ ~IsSet(start_time)

\* C5: lap(label) appends exactly one entry; its label is "Lap" followed by
\* the length of times before the append when label is None or '', and the
\* label itself otherwise ("Lap1" for the first unlabelled lap after start,
\* "Lap0" on an empty watch).
C5_LapLabel ==
  [][call'.name = "lap" =>
       LET label == call'.args[1]
           n == Len(times)
       IN  /\ raised' = None
           /\ Len(times') = n + 1
           /\ SubSeq(times', 1, n) = times
           /\ times'[n + 1][2] = now'
           /\ times'[n + 1][1] = IF label \in {None, Some("")}
                                   THEN "Lap" \o ToString(n)
                                   ELSE Val(label)
           /\ (label \in {None, Some("")} /\ n = 0) => times'[1][1] = "Lap0"
           /\ (label \in {None, Some("")} /\ n = 1) => times'[2][1] = "Lap1"]_vars

\* C5 witness: an unlabelled lap() right after start() was labelled "Lap1".
C5_Witness ==
  /\ call.name = "lap"
  /\ call.args \in {<<None>>, <<Some("")>>}
  /\ Len(times) = 2
  /\ times[1][1] = "Start"
  /\ times[2][1] = "Lap1"

\* C6: stop() on a watch whose start_time is None prints "Timer not
\* started.", raises nothing and changes no field, also when times holds laps
\* recorded before any start.
C6_StopNotStarted ==
  [][(call'.name = "stop" /\ ~IsSet(start_time)) =>
       /\ stdout' = "Timer not started."
       /\ raised' = None
       /\ UNCHANGED fields]_vars

\* C6 witness: stop() printed the notice on a watch holding laps but no start.
C6_Witness ==
  /\ call.name = "stop"
  /\ stdout = "Timer not started."
  /\ ~IsSet(start_time)
  /\ times # <<>>

\* C7: the only call that ends in an error is start(force_reset=False) on a
\* watch with non-empty times.
C7_OnlyStartRaises ==
  raised # None =>
    /\ call.name = "start"
    /\ call.args = <<FALSE>>
    /\ times # <<>>

\* C8: display_laps, whatever its configuration, changes none of start_time,
\* stop_time and times.
C8_DisplayIsPure ==
  [][call'.name = "display_laps" => UNCHANGED fields]_vars

\* C8 witness: display_laps(show_stop=False) drew fewer points than times
\* has entries.
C8_Witness ==
  /\ call.name = "display_laps"
  /\ ~call.args.show_stop
  /\ Len(times) >= 2
  /\ figure.scatter # None
  /\ Len(Val(figure.scatter)) = Len(times) - 1

\* C9: on non-empty times display_laps plots, and with verbose tabulates,
\* all of times in order when show_stop is true and times without its last
\* element when show_stop is false.
C9_ShownEntries ==
  (call.name = "display_laps" /\ times # <<>>) =>
    LET cfg == call.args
        entries == IF cfg.show_stop THEN times ELSE AllButLast(times)
    IN  /\ figure.scatter # None
        /\ Len(Val(figure.scatter)) = Len(entries)
        /\ (entries # <<>> /\ cfg.mark_elapsed_time) => IsSet(start_time)
        /\ Val(figure.scatter) = PointsOf(entries, cfg.mark_elapsed_time)
        /\ cfg.verbose =>
             /\ figure.table # None
             /\ Val(figure.table) = RowsOf(entries, cfg.mark_elapsed_time)

\* C10 as stated: whenever times is non-empty, start_time is set and the
\* first entry of times is ("Start", start_time).
C10_NonEmptyMeansStarted ==
  times # <<>> =>
    /\ IsSet(start_time)
    /\ times[1] = <<"Start", Val(start_time)>>

\* C10 as amended: whenever times is non-empty and start_time is set, the
\* first entry of times is ("Start", start_time).
C10_StartedMeansStartFirst ==
  (times # <<>> /\ IsSet(start_time)) =>
    times[1] = <<"Start", Val(start_time)>>

\* C10 witness: a started watch that has just recorded a lap at a clock
\* reading other than its start_time.
C10_Witness ==
  /\ IsSet(start_time)
  /\ Len(times) >= 2
  /\ times[1] = <<"Start", Val(start_time)>>
  /\ call.name = "lap"
  /\ now # Val(start_time)

\* C11: whenever stop_time is set, the last entry of times is labelled
\* "Stop" and carries stop_time, also after a lap() or a second stop() that
\* follows stop().
C11_StopIsLast ==
  IsSet(stop_time) =>
    /\ times # <<>>
    /\ times[Len(times)] = <<"Stop", Val(stop_time)>>

\* C12: whenever start_time is set, times is non-empty and its first entry
\* is ("Start", start_time).
C12_StartIsFirst ==
  IsSet(start_time) =>
    /\ times # <<>>
    /\ times[1] = <<"Start", Val(start_time)>>

\* C12 witness: a stopped watch with a lap, whose clock moved after start().
C12_Witness ==
  /\ IsSet(start_time)
  /\ IsSet(stop_time)
  /\ Len(times) = 3
  /\ times[1] = <<"Start", Val(start_time)>>
  /\ times[2][2] # Val(start_time)

\* C19: no two entries of times appended by unlabelled lap() calls carry the
\* same label; a generated label can coincide only with a label the caller
\* supplied.
C19_AutoLabelsDistinct ==
  /\ auto_laps \subseteq 1..Len(times)
  /\ \A i \in auto_laps : \A j \in 1..Len(times) :
       (i # j /\ times[i][1] = times[j][1]) => j \notin auto_laps

\* C19 witness: two unlabelled laps are in times, and one of them carries the
\* label the caller gave to another lap.
C19_Witness ==
  /\ Cardinality(auto_laps) >= 2
  /\ \E i \in auto_laps : \E j \in (1..Len(times)) \ auto_laps :
       times[i][1] = times[j][1]

\* C13: under a clock that never goes back, the timestamps of times are
\* non-decreasing in list order, whatever the interleaving of start, lap,
\* stop and reset.
C13_TimesChronological ==
  \A i \in 1..(Len(times) - 1) : times[i][2] <= times[i + 1][2]

\* C13 witness: three entries, the last recorded at a later clock reading
\* than the first.
C13_Witness ==
  /\ Len(times) = 3
  /\ times[1][2] < times[3][2]

\* C18: under a clock that never goes back, whenever start_time is set the
\* elapsed-time x-coordinates of the entries of times are 0 for the first
\* entry, never negative and non-decreasing in list order, and those are the
\* coordinates display_laps(mark_elapsed_time=True) draws.
C18_ElapsedCoordinates ==
  IsSet(start_time) =>
    LET x == XCoords(times, TRUE)
    IN  /\ Len(x) >= 1
        /\ x[1] = 0
        /\ \A i \in 1..Len(x) : x[i] >= 0
        /\ \A i \in 1..(Len(x) - 1) : x[i] <= x[i + 1]
        /\ (call.name = "display_laps" /\ call.args.mark_elapsed_time) =>
             /\ raised = None
             /\ figure.scatter # None
             /\ LET drawn == Val(figure.scatter)
                IN  /\ Len(drawn) =
                         IF call.args.show_stop THEN Len(x) ELSE Len(x) - 1
                    /\ \A i \in 1..Len(drawn) : drawn[i] = <<x[i], 0>>

\* C18 witness: display_laps(mark_elapsed_time=True) drew three entries of a
\* started watch, the last of them to the right of 0.
C18_Witness ==
  /\ call.name = "display_laps"
  /\ call.args.mark_elapsed_time
  /\ IsSet(start_time)
  /\ figure.scatter # None
  /\ Len(Val(figure.scatter)) = 3
  /\ Val(figure.scatter)[1][1] = 0
  /\ Val(figure.scatter)[3][1] > 0

\* C14: start(force_reset=True) at clock reading t leaves start_time = t,
\* stop_time None and times = [("Start", t)], whatever the state before it,
\* and Stopwatch(auto_start=True) at t leaves the same.
C14_ForcedStartIsFresh ==
  [][(call'.name \in {"start", "construct"} /\ call'.args = <<TRUE>>) =>
       /\ raised' = None
       /\ start_time' = Some(now')
       /\ stop_time' = None
       /\ times' = << <<"Start", now'>> >>]_vars

\* C14 witness: start(force_reset=True) has just run at the last clock
\* reading of the model.
C14_Witness ==
  /\ call.name = "start"
  /\ call.args = <<TRUE>>
  /\ now = MaxTime
  /\ times = << <<"Start", MaxTime>> >>
  /\ stop_time = None

\* C15: once stop_time is set, every call other than reset(),
\* start(force_reset=True) and a new construction leaves stop_time set and
\* start_time as it was, and start(force_reset=False) raises.
C15_StaysStopped ==
  [][(/\ IsSet(stop_time)
      /\ call'.name \notin {"reset", "construct"}
      /\ ~(call'.name = "start" /\ call'.args = <<TRUE>>)) =>
       /\ IsSet(stop_time')
       /\ start_time' = start_time
       /\ call'.name = "start" => /\ raised' = Some(AlreadyRunningOrUsed)
                                  /\ UNCHANGED fields]_vars

\* C15 witness: a lap() recorded after stop() on a watch that is still
\* stopped.
C15_Witness ==
  /\ call.name = "lap"
  /\ IsSet(stop_time)
  /\ IsSet(start_time)
  /\ Len(times) = 3
  /\ times[2] = <<"Stop", Val(stop_time)>>

\* C16: if times is empty then start_time and stop_time are both None, and
\* if stop_time is set then start_time is set.
C16_FieldsAgree ==
  /\ times = <<>> => (start_time = None /\ stop_time = None)
  /\ IsSet(stop_time) => IsSet(start_time)

\* C16 witness: stop() on a watch that holds laps but was never started has
\* left stop_time None.
C16_Witness ==
  /\ call.name = "stop"
  /\ times # <<>>
  /\ ~IsSet(start_time)
  /\ ~IsSet(stop_time)

\* C17: a start(force_reset=False) that does not raise leaves start_time = t,
\* stop_time None and times = [("Start", t)], the state
\* start(force_reset=True) leaves at the same clock reading.
C17_UnforcedStartIsFresh ==
  [][(call'.name = "start" /\ call'.args = <<FALSE>> /\ raised' = None) =>
       /\ times = <<>>
       /\ start_time' = Some(now')
       /\ stop_time' = None
       /\ times' = << <<"Start", now'>> >>]_vars

\* C17 witness: start(force_reset=False) has succeeded at the last clock
\* reading of the model.
C17_Witness ==
  /\ call.name = "start"
  /\ call.args = <<FALSE>>
  /\ raised = None
  /\ now = MaxTime
  /\ IsSet(start_time)

====
